---------------------------- MODULE Spec2Model ----------------------------
(***************************************************************************)
(* Model of the subgame solver service (services/solver):                  *)
(*   abstraction.rs  parse_action_set / parse_action_token / pot_in_bb     *)
(*   game_tree.rs    GameTree::from_action_specs                           *)
(*   cfr.rs          run_cfr                                               *)
(*   budget.rs       BudgetClock                                           *)
(*   solver.rs       SolverEngine::solve and its helpers                   *)
(*   main.rs         SolverService::solve (dispatch of concurrent calls)   *)
(*                                                                         *)
(* f64 values are modelled as exact rationals extended with +inf, -inf and *)
(* NaN, with the comparison and NaN rules of the Rust f64 methods the code *)
(* calls.  Rounding error of binary floating point is not modelled.        *)
(* Tokens are sequences of one-character strings, so that strip_prefix,    *)
(* eq_ignore_ascii_case and str::parse::<f64> are computed, not assumed.   *)
(***************************************************************************)
EXTENDS Integers, Sequences, FiniteSets, TLC

VARIABLES
    now,        \* the monotonic clock read by Instant::now(), in ms
    pc,         \* pc[c]: position of call c inside SolverEngine::solve
    request,    \* request[c]: the SubgameRequest of call c
    clock,      \* clock[c]: the BudgetClock of call c
    summary,    \* summary[c]: the GameStateSummary of call c
    action_specs, \* action_specs[c]: Vec<ActionSpec>
    tree,       \* tree[c]: the GameTree
    stats,      \* stats[c]: Vec<ActionStat> returned by run_cfr
    response,   \* response[c]: the SubgameResponse returned
    trace,      \* trace[c]: the positions call c went through (history)
    u_in,       \* unit harness: its arguments
    u_out,      \* unit harness: its result
    u_pc        \* unit harness: "ready" before the call, "done" after

vars == <<now, pc, request, clock, summary, action_specs, tree, stats,
          response, trace, u_in, u_out, u_pc>>

solve_vars == <<now, pc, request, clock, summary, action_specs, tree, stats,
                response, trace>>

unit_vars == <<u_in, u_out, u_pc>>

(***************************************************************************)
(* f64 arithmetic                                                          *)
(***************************************************************************)
Abs(i) == IF i < 0 THEN -i ELSE i

RECURSIVE Gcd(_, _)
Gcd(a, b) == IF b = 0 THEN a ELSE Gcd(b, a % b)

\* the finite value n/d, in lowest terms with a positive denominator
Fin(n, d) ==
    LET s == IF d < 0 THEN -1 ELSE 1
        g == Gcd(Abs(n), Abs(d))
    IN  [k |-> "fin", n |-> (s * n) \div g, d |-> (s * d) \div g]

NaN == [k |-> "nan", n |-> 0, d |-> 1]
PosInf == [k |-> "inf", n |-> 1, d |-> 1]
NegInf == [k |-> "inf", n |-> -1, d |-> 1]

\* an integer cast to f64 (`x as f64`); exact for every i32
I2F(i) == [k |-> "fin", n |-> i, d |-> 1]

IsNaN(x) == x.k = "nan"
IsFin(x) == x.k = "fin"

\* IEEE comparison: false whenever an operand is NaN
f64_lt(a, b) ==
    IF IsNaN(a) \/ IsNaN(b) THEN FALSE
    ELSE IF a.k = "inf" THEN a.n < 0 /\ ~(b.k = "inf" /\ b.n < 0)
    ELSE IF b.k = "inf" THEN b.n > 0
    ELSE a.n * b.d < b.n * a.d

f64_gt(a, b) == f64_lt(b, a)

f64_le(a, b) ==
    IF IsNaN(a) \/ IsNaN(b) THEN FALSE ELSE ~f64_lt(b, a)

f64_ge(a, b) == f64_le(b, a)

\* f64::max: the other operand when one is NaN
f64_max(a, b) ==
    IF IsNaN(a) THEN b ELSE IF IsNaN(b) THEN a
    ELSE IF f64_lt(a, b) THEN b ELSE a

\* f64::min: the other operand when one is NaN
f64_min(a, b) ==
    IF IsNaN(a) THEN b ELSE IF IsNaN(b) THEN a
    ELSE IF f64_lt(b, a) THEN b ELSE a

\* f64::clamp: NaN stays NaN (both comparisons are false)
f64_clamp(x, lo, hi) ==
    IF f64_lt(x, lo) THEN lo ELSE IF f64_gt(x, hi) THEN hi ELSE x

Sign(i) == IF i < 0 THEN -1 ELSE IF i > 0 THEN 1 ELSE 0

f64_mul(a, b) ==
    IF IsNaN(a) \/ IsNaN(b) THEN NaN
    ELSE IF a.k = "inf" \/ b.k = "inf"
         THEN IF Sign(a.n) * Sign(b.n) = 0 THEN NaN
              ELSE IF Sign(a.n) * Sign(b.n) > 0 THEN PosInf ELSE NegInf
    ELSE Fin(a.n * b.n, a.d * b.d)

f64_div(a, b) ==
    IF IsNaN(a) \/ IsNaN(b) THEN NaN
    ELSE IF a.k = "inf"
         THEN IF b.k = "inf" THEN NaN
              ELSE IF Sign(a.n) * (IF b.n < 0 THEN -1 ELSE 1) > 0
                   THEN PosInf ELSE NegInf
    ELSE IF b.k = "inf" THEN I2F(0)
    ELSE IF b.n = 0
         THEN IF a.n = 0 THEN NaN ELSE IF a.n > 0 THEN PosInf ELSE NegInf
    ELSE Fin(a.n * b.d, a.d * b.n)

f64_add(a, b) ==
    IF IsNaN(a) \/ IsNaN(b) THEN NaN
    ELSE IF a.k = "inf"
         THEN IF b.k = "inf" /\ b.n # a.n THEN NaN ELSE a
    ELSE IF b.k = "inf" THEN b
    ELSE Fin(a.n * b.d + b.n * a.d, a.d * b.d)

f64_neg(a) == IF IsFin(a) \/ a.k = "inf" THEN [a EXCEPT !.n = -a.n] ELSE a

f64_sub(a, b) == f64_add(a, f64_neg(b))


(***************************************************************************)
(* Strings: a &str is a sequence of one-character strings                  *)
(***************************************************************************)
UpperCase == <<"A","B","C","D","E","F","G","H","I","J","K","L","M",
               "N","O","P","Q","R","S","T","U","V","W","X","Y","Z">>
LowerCase == <<"a","b","c","d","e","f","g","h","i","j","k","l","m",
               "n","o","p","q","r","s","t","u","v","w","x","y","z">>
DecDigits == <<"0","1","2","3","4","5","6","7","8","9">>

to_ascii_lowercase(c) ==
    IF \E i \in 1..Len(UpperCase) : UpperCase[i] = c
    THEN LowerCase[CHOOSE i \in 1..Len(UpperCase) : UpperCase[i] = c]
    ELSE c

eq_ignore_ascii_case(a, b) ==
    /\ Len(a) = Len(b)
    /\ \A i \in 1..Len(a) : to_ascii_lowercase(a[i]) = to_ascii_lowercase(b[i])

\* Option<&str>: the rest of the token after the prefix, when it has it
strip_prefix(token, prefix) ==
    IF Len(token) >= Len(prefix) /\ SubSeq(token, 1, Len(prefix)) = prefix
    THEN [some |-> TRUE, rest |-> SubSeq(token, Len(prefix) + 1, Len(token))]
    ELSE [some |-> FALSE, rest |-> <<>>]

IsDigit(c) == \E i \in 1..Len(DecDigits) : DecDigits[i] = c
DigitVal(c) == (CHOOSE i \in 1..Len(DecDigits) : DecDigits[i] = c) - 1
AllDigits(s) == \A i \in 1..Len(s) : IsDigit(s[i])

RECURSIVE DigitsValue(_)
DigitsValue(s) ==
    IF s = <<>> THEN 0
    ELSE 10 * DigitsValue(SubSeq(s, 1, Len(s) - 1)) + DigitVal(s[Len(s)])

RECURSIVE Pow10(_)
Pow10(e) == IF e = 0 THEN 1 ELSE 10 * Pow10(e - 1)

\* index of the first character of s that is in cs, 0 when there is none
IndexOf(s, cs) ==
    IF \E i \in 1..Len(s) : s[i] \in cs
    THEN CHOOSE i \in 1..Len(s) :
             s[i] \in cs /\ \A j \in 1..(i - 1) : s[j] \notin cs
    ELSE 0

\* str::parse::<f64>: Result<f64, _> as [ok, v].  Grammar of f64::from_str:
\*   [+-]? ( inf | infinity | nan | (D+ | D+ . D* | D* . D+) ([eE] [+-]? D+)? )
\* with inf, infinity and nan in any letter case and no surrounding blanks.
parse_f64(s) ==
    LET signed == Len(s) > 0 /\ s[1] \in {"+", "-"}
        neg == signed /\ s[1] = "-"
        body == IF signed THEN Tail(s) ELSE s
        low == [i \in 1..Len(body) |-> to_ascii_lowercase(body[i])]
        e == IndexOf(body, {"e", "E"})
        mant == IF e = 0 THEN body ELSE SubSeq(body, 1, e - 1)
        expo == IF e = 0 THEN <<>> ELSE SubSeq(body, e + 1, Len(body))
        esigned == Len(expo) > 0 /\ expo[1] \in {"+", "-"}
        ebody == IF esigned THEN Tail(expo) ELSE expo
        dot == IndexOf(mant, {"."})
        ip == IF dot = 0 THEN mant ELSE SubSeq(mant, 1, dot - 1)
        fp == IF dot = 0 THEN <<>> ELSE SubSeq(mant, dot + 1, Len(mant))
        wellformed ==
            /\ AllDigits(ip) /\ AllDigits(fp) /\ Len(ip) + Len(fp) > 0
            /\ e # 0 => (AllDigits(ebody) /\ Len(ebody) > 0)
        m == Fin(DigitsValue(ip) * Pow10(Len(fp)) + DigitsValue(fp),
                 Pow10(Len(fp)))
        scale == IF e = 0 THEN I2F(1)
                 ELSE IF esigned /\ expo[1] = "-"
                      THEN Fin(1, Pow10(DigitsValue(ebody)))
                      ELSE I2F(Pow10(DigitsValue(ebody)))
        mag == f64_mul(m, scale)
    IN  IF low \in {<<"i","n","f">>, <<"i","n","f","i","n","i","t","y">>}
        THEN [ok |-> TRUE, v |-> IF neg THEN NegInf ELSE PosInf]
        ELSE IF low = <<"n","a","n">> THEN [ok |-> TRUE, v |-> NaN]
        ELSE IF wellformed
             THEN [ok |-> TRUE, v |-> IF neg THEN f64_neg(mag) ELSE mag]
             ELSE [ok |-> FALSE, v |-> I2F(0)]

\* Result::unwrap_or
unwrap_or(r, default) == IF r.ok THEN r.v ELSE default

\* the integer nearest to n/d (n >= 0, d > 0), ties to the even one
RoundHalfEven(n, d) ==
    LET q == n \div d
        r == n % d
    IN  IF 2 * r > d THEN q + 1
        ELSE IF 2 * r = d THEN q + (q % 2)
        ELSE q

\* format!("{:.2}", x)
fmt_2(x) ==
    IF IsNaN(x) THEN "NaN"
    ELSE IF x.k = "inf" THEN (IF x.n < 0 THEN "-inf" ELSE "inf")
    ELSE LET h == RoundHalfEven(100 * Abs(x.n), x.d)
             frac == h % 100
         IN  (IF x.n < 0 THEN "-" ELSE "") \o ToString(h \div 100) \o "."
                 \o (IF frac < 10 THEN "0" ELSE "") \o ToString(frac)

(***************************************************************************)
(* abstraction.rs                                                          *)
(***************************************************************************)
\* pot_in_bb as it would be without its final floor of 1.0
pot_in_bb_unfloored(self) ==
    LET big_blind == f64_max(self.blinds.big, I2F(1))
    IN  IF f64_gt(big_blind, I2F(0))
        THEN f64_div(self.pot, big_blind)
        ELSE self.pot

\* GameStateSummary::pot_in_bb
pot_in_bb(self) ==
    LET big_blind == f64_max(self.blinds.big, I2F(1))
        derived == IF f64_gt(big_blind, I2F(0))
                   THEN f64_div(self.pot, big_blind)
                   ELSE self.pot
    IN  f64_max(derived, I2F(1))

Some(spec) == [some |-> TRUE, label |-> spec.label, amount |-> spec.amount]
None == [some |-> FALSE, label |-> "", amount |-> I2F(0)]

\* the "all-in" branch of parse_action_token
all_in_token(stack_cap) ==
    Some([label |-> "all-in", amount |-> stack_cap])

\* the "pot:" branch of parse_action_token
pot_token(rest, pot_bb, stack_cap) ==
    LET fraction == f64_max(unwrap_or(parse_f64(rest), I2F(0)), Fin(1, 100))
    IN  Some([label |-> "pot-" \o fmt_2(fraction),
              amount |-> f64_clamp(f64_mul(fraction, pot_bb),
                                   Fin(1, 2), stack_cap)])

\* the "stack:" branch as it would be without its floor of 0.5
stack_token_unfloored(rest, stack_cap) ==
    LET fraction == f64_clamp(unwrap_or(parse_f64(rest), I2F(0)),
                              I2F(0), I2F(1))
    IN  Some([label |-> "stack-" \o fmt_2(fraction),
              amount |-> f64_mul(fraction, stack_cap)])

\* the "stack:" branch of parse_action_token
stack_token(rest, stack_cap) ==
    LET fraction == f64_clamp(unwrap_or(parse_f64(rest), I2F(0)),
                              I2F(0), I2F(1))
    IN  Some([label |-> "stack-" \o fmt_2(fraction),
              amount |-> f64_max(f64_mul(fraction, stack_cap), Fin(1, 2))])

\* the "abs:" branch of parse_action_token
abs_token(rest, stack_cap) ==
    LET value == f64_max(unwrap_or(parse_f64(rest), I2F(0)), I2F(0))
    IN  Some([label |-> "abs-" \o fmt_2(value),
              amount |-> f64_min(value, stack_cap)])

\* the plain-number branch of parse_action_token
plain_token(token, stack_cap) ==
    LET parsed == parse_f64(token)
    IN  IF parsed.ok /\ f64_gt(parsed.v, I2F(0))
        THEN Some([label |-> "abs-" \o fmt_2(parsed.v),
                   amount |-> f64_min(parsed.v, stack_cap)])
        ELSE None

parse_action_token(token, pot_bb, stack_cap) ==
    IF eq_ignore_ascii_case(token, <<"a","l","l","-","i","n">>)
    THEN all_in_token(stack_cap)
    ELSE IF strip_prefix(token, <<"p","o","t",":">>).some
    THEN pot_token(strip_prefix(token, <<"p","o","t",":">>).rest,
                   pot_bb, stack_cap)
    ELSE IF strip_prefix(token, <<"s","t","a","c","k",":">>).some
    THEN stack_token(strip_prefix(token, <<"s","t","a","c","k",":">>).rest,
                     stack_cap)
    ELSE IF strip_prefix(token, <<"a","b","s",":">>).some
    THEN abs_token(strip_prefix(token, <<"a","b","s",":">>).rest, stack_cap)
    ELSE plain_token(token, stack_cap)

\* filter_map as it would be if each kept spec were put in front
RECURSIVE filter_map_tokens_reversed(_, _, _)
filter_map_tokens_reversed(raw, pot_bb, stack_cap) ==
    IF raw = <<>> THEN <<>>
    ELSE LET r == parse_action_token(Head(raw), pot_bb, stack_cap)
             rest == filter_map_tokens_reversed(Tail(raw), pot_bb, stack_cap)
         IN  IF r.some
             THEN rest \o <<[label |-> r.label, amount |-> r.amount]>>
             ELSE rest

\* raw.iter().filter_map(|value| parse_action_token(..)).collect()
RECURSIVE filter_map_tokens(_, _, _)
filter_map_tokens(raw, pot_bb, stack_cap) ==
    IF raw = <<>> THEN <<>>
    ELSE LET r == parse_action_token(Head(raw), pot_bb, stack_cap)
             rest == filter_map_tokens(Tail(raw), pot_bb, stack_cap)
         IN  IF r.some
             THEN <<[label |-> r.label, amount |-> r.amount]>> \o rest
             ELSE rest

parse_action_set(raw, s, effective_stack_bb) ==
    IF raw = <<>> THEN <<>>
    ELSE filter_map_tokens(raw, pot_in_bb(s),
                           f64_max(effective_stack_bb, I2F(1)))

(***************************************************************************)
(* game_tree.rs                                                            *)
(***************************************************************************)
\* the amount as it would be if a non-positive amount were kept
tree_amount_keeps_nonpositive(amount, effective_stack_bb) ==
    f64_min(amount, f64_max(effective_stack_bb, I2F(1)))

\* the amount as it would be if a positive amount were not clamped
tree_amount_unclamped(amount, effective_stack_bb) ==
    IF f64_le(amount, I2F(0))
    THEN f64_max(effective_stack_bb, I2F(1))
    ELSE amount

\* the amount one spec gets in GameTree::from_action_specs
tree_amount(amount, effective_stack_bb) ==
    IF f64_le(amount, I2F(0))
    THEN f64_max(effective_stack_bb, I2F(1))
    ELSE f64_min(amount, f64_max(effective_stack_bb, I2F(1)))

from_action_specs(specs, effective_stack_bb) ==
    [actions |-> [i \in 1..Len(specs) |->
                    [label |-> specs[i].label,
                     amount |-> tree_amount(specs[i].amount,
                                            effective_stack_bb)]],
     effective_stack_bb |-> effective_stack_bb]

is_empty(t) == t.actions = <<>>

(***************************************************************************)
(* cfr.rs                                                                  *)
(***************************************************************************)
\* x <= f64::EPSILON.  EPSILON is 2^-52, and a positive value of the model
\* has a denominator below 2^31, so it is above EPSILON.
le_epsilon(x) == f64_le(x, I2F(0))

\* modulation of the action at 0-based index
modulation(index) == f64_sub(I2F(1), f64_mul(I2F(index), Fin(5, 100)))

\* the first loop of run_cfr: raw_freqs
raw_freqs_of(count) ==
    [i \in 1..count |->
        f64_max(f64_mul(f64_div(I2F(1), I2F(count)), modulation(i - 1)),
                I2F(0))]

\* total += freq, in index order
RECURSIVE sum_f64(_)
sum_f64(fs) ==
    IF fs = <<>> THEN I2F(0)
    ELSE f64_add(sum_f64(SubSeq(fs, 1, Len(fs) - 1)), fs[Len(fs)])

\* regret as it would be with the factor 1/n in place of (n-1)/n
regret_of_decaying(index, iterations) ==
    f64_mul(f64_div(I2F(1), iterations),
            f64_max(f64_sub(Fin(1, 10), f64_mul(I2F(index), Fin(1, 100))),
                    I2F(0)))

\* regret of the action at 0-based index after `iterations` (an f64 >= 1)
regret_of(index, iterations) ==
    f64_mul(f64_div(f64_sub(iterations, I2F(1)), iterations),
            f64_max(f64_sub(Fin(1, 10), f64_mul(I2F(index), Fin(1, 100))),
                    I2F(0)))

\* the frequency as it would be if the raw weight were not divided by total
normalized_frequency_unscaled(raw_freq, total) ==
    f64_clamp(raw_freq, I2F(0), I2F(1))

\* normalized frequency of one action
normalized_frequency(raw_freq, total) ==
    f64_clamp(f64_div(raw_freq, total), I2F(0), I2F(1))

run_cfr(t, iterations) ==
    IF is_empty(t) THEN <<>>
    ELSE
    LET n == I2F(IF iterations > 1 THEN iterations ELSE 1)
        count == Len(t.actions)
        freqs0 == raw_freqs_of(count)
        total0 == sum_f64(freqs0)
        fallback == le_epsilon(total0)
        total == IF fallback THEN I2F(count) ELSE total0
        raw_freqs == IF fallback THEN [i \in 1..count |-> I2F(1)] ELSE freqs0
    IN  [i \in 1..count |->
            [label |-> t.actions[i].label,
             amount |-> t.actions[i].amount,
             frequency |-> normalized_frequency(raw_freqs[i], total),
             ev |-> f64_mul(f64_div(f64_max(t.effective_stack_bb, I2F(1)),
                                    I2F(100)),
                            f64_max(modulation(i - 1), Fin(1, 10))),
             regret |-> regret_of(i - 1, n)]]

(***************************************************************************)
(* budget.rs                                                               *)
(***************************************************************************)
\* BudgetClock::new, called at time t
BudgetClock_new(budget_ms, t) ==
    [start |-> t, budget |-> IF budget_ms > 0 THEN budget_ms ELSE 0]

\* BudgetClock::elapsed_millis, called at time t
elapsed_millis(self, t) == t - self.start

\* BudgetClock::remaining_millis, called at time t
remaining_millis(self, t) ==
    IF self.budget = 0 THEN 0
    ELSE IF elapsed_millis(self, t) >= self.budget THEN 0
    ELSE self.budget - elapsed_millis(self, t)

\* BudgetClock::exhausted, called at time t
exhausted(self, t) ==
    self.budget = 0 \/ elapsed_millis(self, t) >= self.budget

(***************************************************************************)
(* solver.rs: helpers                                                      *)
(***************************************************************************)
\* i32 division, rounding toward zero
i32_div(a, b) ==
    IF (a < 0) = (b < 0) THEN Abs(a) \div Abs(b) ELSE -(Abs(a) \div Abs(b))

IntMax(a, b) == IF a >= b THEN a ELSE b

\* the iteration count as it would be without the floor of action_count
determine_iterations_no_count(budget_ms, action_count) ==
    LET base == i32_div(IntMax(budget_ms, 50), 10)
    IN  IntMax(base, 5)

determine_iterations(budget_ms, action_count) ==
    LET base == i32_div(IntMax(budget_ms, 50), 10)
    IN  IntMax(base, IntMax(action_count, 5))

\* BlindSummary::default() / the fallback summary of parse_game_state
DefaultSummary ==
    [pot |-> I2F(0), street |-> "", blinds |-> [big |-> I2F(0)]]

\* A JSON document is modelled by its parse tree: `valid` is whether the text
\* is JSON holding an object; each field is absent or holds a value of type
\* t ("num", "str", "null", "obj"); `big` is the field inside `blinds`.
Absent == [t |-> "absent", num |-> I2F(0), str |-> ""]
JNum(x) == [t |-> "num", num |-> x, str |-> ""]
JStr(x) == [t |-> "str", num |-> I2F(0), str |-> x]
JNull == [t |-> "null", num |-> I2F(0), str |-> ""]
JObj == [t |-> "obj", num |-> I2F(0), str |-> ""]

\* serde_json::from_str::<GameStateSummary>: every field is #[serde(default)]
from_str(json) ==
    IF /\ json.valid
       /\ json.pot.t \in {"absent", "num"}
       /\ json.street.t \in {"absent", "str"}
       /\ json.blinds.t \in {"absent", "obj"}
       /\ json.blinds.t = "obj" => json.big.t \in {"absent", "num"}
    THEN [ok |-> TRUE,
          v |-> [pot |-> json.pot.num,
                 street |-> json.street.str,
                 blinds |-> [big |-> IF json.blinds.t = "obj"
                                     THEN json.big.num ELSE I2F(0)]]]
    ELSE [ok |-> FALSE, v |-> DefaultSummary]

parse_game_state(json) == unwrap_or(from_str(json), DefaultSummary)

\* exploitability as computed in SolverEngine::solve
exploitability_of(s) ==
    f64_clamp(f64_div(s.pot, I2F(1000)), I2F(0), Fin(1, 2))

build_response(sts, clk, exploitability, t) ==
    [actions |-> [i \in 1..Len(sts) |->
                    [action_type |-> sts[i].label,
                     amount |-> sts[i].amount,
                     frequency |-> sts[i].frequency,
                     ev |-> sts[i].ev,
                     regret |-> sts[i].regret]],
     exploitability |-> exploitability,
     compute_time_ms |-> elapsed_millis(clk, t),
     source |-> "subgame"]

\* the response of the early return of SolverEngine::solve
empty_response(clk, t) ==
    [actions |-> <<>>,
     exploitability |-> I2F(0),
     compute_time_ms |-> elapsed_millis(clk, t),
     source |-> "subgame"]

(***************************************************************************)
(* Inputs.  Each token of the catalogue is written out character by        *)
(* character together with what it is meant to say: its form in the token  *)
(* table, whether its numeric part is a number, that number, and the label *)
(* expected for it.  The code is run on `s` alone; the other fields are    *)
(* read only by the properties.                                            *)
(***************************************************************************)
Catalogue == <<
    [s |-> <<"p","o","t",":","0",".","5">>,
     form |-> "pot", num |-> TRUE, val |-> Fin(1, 2), label |-> "pot-0.50"],
    [s |-> <<"a","l","l","-","i","n">>,
     form |-> "all-in", num |-> FALSE, val |-> I2F(0), label |-> "all-in"],
    [s |-> <<"a","b","s",":","0">>,
     form |-> "abs", num |-> TRUE, val |-> I2F(0), label |-> "abs-0.00"],
    [s |-> <<"p","o","t",":","0",".","3","3">>,
     form |-> "pot", num |-> TRUE, val |-> Fin(33, 100), label |-> "pot-0.33"],
    [s |-> <<"p","o","t",":","0",".","7","5">>,
     form |-> "pot", num |-> TRUE, val |-> Fin(3, 4), label |-> "pot-0.75"],
    [s |-> <<"A","L","L","-","I","N">>,
     form |-> "all-in", num |-> FALSE, val |-> I2F(0), label |-> "all-in"],
    [s |-> <<"f","o","l","d">>,
     form |-> "other", num |-> FALSE, val |-> I2F(0), label |-> ""],
    [s |-> <<"s","t","a","c","k",":","0",".","5">>,
     form |-> "stack", num |-> TRUE, val |-> Fin(1, 2), label |-> "stack-0.50"],
    [s |-> <<"s","t","a","c","k",":","2">>,
     form |-> "stack", num |-> TRUE, val |-> I2F(2), label |-> "stack-1.00"],
    [s |-> <<"s","t","a","c","k",":","-","1">>,
     form |-> "stack", num |-> TRUE, val |-> I2F(-1), label |-> "stack-0.00"],
    [s |-> <<"a","b","s",":","1","2">>,
     form |-> "abs", num |-> TRUE, val |-> I2F(12), label |-> "abs-12.00"],
    [s |-> <<"a","b","s",":","-","3">>,
     form |-> "abs", num |-> TRUE, val |-> I2F(-3), label |-> "abs-0.00"],
    [s |-> <<"a","b","s",":","x">>,
     form |-> "abs", num |-> FALSE, val |-> I2F(0), label |-> "abs-0.00"],
    [s |-> <<"0">>,
     form |-> "bare", num |-> TRUE, val |-> I2F(0), label |-> ""],
    [s |-> <<"p","o","t",":">>,
     form |-> "pot", num |-> FALSE, val |-> I2F(0), label |-> "pot-0.01"],
    [s |-> <<"p","o","t",":","-","1">>,
     form |-> "pot", num |-> TRUE, val |-> I2F(-1), label |-> "pot-0.01"],
    [s |-> <<"p","o","t",":","2","0","0">>,
     form |-> "pot", num |-> TRUE, val |-> I2F(200), label |-> "pot-200.00"],
    [s |-> <<"7",".","5">>,
     form |-> "bare", num |-> TRUE, val |-> Fin(15, 2), label |-> "abs-7.50"],
    [s |-> <<"P","O","T",":","0",".","5">>,
     form |-> "other", num |-> FALSE, val |-> I2F(0), label |-> ""],
    [s |-> <<"s","t","a","c","k",":","n","a","n">>,
     form |-> "stack", num |-> TRUE, val |-> NaN, label |-> "stack-NaN"],
    [s |-> <<"i","n","f">>,
     form |-> "bare", num |-> TRUE, val |-> PosInf, label |-> "abs-inf"],
    [s |-> <<"-","4">>,
     form |-> "bare", num |-> TRUE, val |-> I2F(-4), label |-> ""],
    [s |-> <<"a","b","s",":","1","e","3">>,
     form |-> "abs", num |-> TRUE, val |-> I2F(1000), label |-> "abs-1000.00"],
    [s |-> <<>>,
     form |-> "other", num |-> FALSE, val |-> I2F(0), label |-> ""],
    [s |-> <<"A","l","l","-","I","n">>,
     form |-> "all-in", num |-> FALSE, val |-> I2F(0), label |-> "all-in"],
    [s |-> <<"a","b","s",":","5","0","0">>,
     form |-> "abs", num |-> TRUE, val |-> I2F(500), label |-> "abs-500.00"],
    [s |-> <<"p","o","t",":","i","n","f">>,
     form |-> "pot", num |-> TRUE, val |-> PosInf, label |-> "pot-inf"],
    [s |-> <<"n","a","n">>,
     form |-> "bare", num |-> TRUE, val |-> NaN, label |-> ""],
    [s |-> <<"a","l","l","-","i","n"," ">>,
     form |-> "other", num |-> FALSE, val |-> I2F(0), label |-> ""]
>>

NumTokens == Len(Catalogue)

\* what the catalogue says about a token
Meaning(tok) ==
    Catalogue[CHOOSE i \in 1..NumTokens : Catalogue[i].s = tok]

\* longest run of consecutive catalogue tokens in an action_set
MaxWindow == 3
\* longest action_set made of one repeated token
MaxRepeat == 22
\* last instant of the monotonic clock
MaxTime == 1
\* number of call slots the transport runs concurrently
MaxCalls == 2
\* largest action_count given to determine_iterations on its own
MaxCount == 8
\* largest iteration count given to run_cfr on its own
MaxIter == 6

\* len consecutive tokens of the catalogue starting at the i-th (cyclic)
Window(i, len) ==
    [j \in 1..len |-> Catalogue[((i + j - 2) % NumTokens) + 1].s]

\* len copies of the i-th token of the catalogue
Repeat(i, len) == [j \in 1..len |-> Catalogue[i].s]

TokenLists ==
    {Window(i, len) : i \in 1..NumTokens, len \in 0..MaxWindow}
        \cup {Repeat(i, len) : i \in 1..3, len \in 3..MaxRepeat}

\* game_state_json documents
Json(valid, pot, street, blinds, big) ==
    [valid |-> valid, pot |-> pot, street |-> street, blinds |-> blinds,
     big |-> big]

JsonTest == Json(TRUE, JNum(I2F(20)), JStr("preflop"), JObj, JNum(I2F(2)))
JsonSolve == Json(TRUE, JNum(I2F(12)), JStr("preflop"), JObj, JNum(I2F(2)))
JsonMalformed == Json(FALSE, Absent, Absent, Absent, Absent)
JsonEmptyObject == Json(TRUE, Absent, Absent, Absent, Absent)
JsonBigPot == Json(TRUE, JNum(I2F(800)), JStr("river"), JObj, JNum(I2F(0)))
JsonPotString == Json(TRUE, JStr("20"), JStr("flop"), JObj, JNum(I2F(2)))
JsonNegativePot == Json(TRUE, JNum(I2F(-50)), Absent, JObj, Absent)
JsonBlindNull == Json(TRUE, JNum(I2F(20)), Absent, JObj, JNull)
JsonSmallPot == Json(TRUE, JNum(Fin(3, 2)), Absent, JObj, JNum(I2F(4)))

JsonDocs == {JsonTest, JsonSolve, JsonMalformed, JsonEmptyObject, JsonBigPot,
             JsonPotString, JsonNegativePot, JsonBlindNull, JsonSmallPot}

\* effective_stack_bb values (i32)
Stacks == {-3, 0, 1, 120, 150}

\* budget_ms values (i32)
Budgets == {-5, 0, 200}

SubgameRequest(fp, json, budget_ms, stack, action_set) ==
    [state_fingerprint |-> fp, game_state_json |-> json,
     budget_ms |-> budget_ms, effective_stack_bb |-> stack,
     action_set |-> action_set]

\* the request of the test solver_engine_returns_actions
TestRequest ==
    SubgameRequest("unit-test", JsonSolve, 200, 120,
                   <<Catalogue[4].s, Catalogue[5].s, Catalogue[2].s>>)

\* requests given to a single call slot
AllRequests ==
    {SubgameRequest("r", j, 200, st, ts) :
        j \in JsonDocs, st \in Stacks, ts \in TokenLists}
      \cup {SubgameRequest("r", JsonTest, b, 150, ts) :
              b \in Budgets, ts \in TokenLists}
      \cup {TestRequest}

\* requests given to concurrent call slots
SmallRequests ==
    {TestRequest,
     SubgameRequest("r", JsonMalformed, -5, 0,
                    <<Catalogue[7].s, Catalogue[14].s>>),
     SubgameRequest("r", JsonBigPot, 0, 150,
                    <<Catalogue[3].s, Catalogue[1].s>>)}

(***************************************************************************)
(* SolverService::solve / SolverEngine::solve, one step per statement      *)
(***************************************************************************)
Calls == 1..MaxCalls

NoRequest == SubgameRequest("", JsonMalformed, 0, 0, <<>>)
NoClock == [start |-> 0, budget |-> 0]
NoTree == [actions |-> <<>>, effective_stack_bb |-> I2F(0)]
NoResponse ==
    [actions |-> <<>>, exploitability |-> I2F(0), compute_time_ms |-> 0,
     source |-> ""]

UnitIdle == u_in = <<>> /\ u_out = <<>> /\ u_pc = "off"

Init ==
    /\ now = 0
    /\ pc = [c \in Calls |-> "IDLE"]
    /\ request = [c \in Calls |-> NoRequest]
    /\ clock = [c \in Calls |-> NoClock]
    /\ summary = [c \in Calls |-> DefaultSummary]
    /\ action_specs = [c \in Calls |-> <<>>]
    /\ tree = [c \in Calls |-> NoTree]
    /\ stats = [c \in Calls |-> <<>>]
    /\ response = [c \in Calls |-> NoResponse]
    /\ trace = [c \in Calls |-> <<>>]
    /\ UnitIdle

\* call c moves to position p
Goto(c, p) ==
    /\ pc' = [pc EXCEPT ![c] = p]
    /\ trace' = [trace EXCEPT ![c] = Append(@, p)]

\* the transport hands a request to the service: the call starts
Receive(c, reqs) ==
    /\ pc[c] = "IDLE"
    /\ \E r \in reqs : request' = [request EXCEPT ![c] = r]
    /\ pc' = [pc EXCEPT ![c] = "START"]
    /\ trace' = [trace EXCEPT ![c] = <<"START">>]
    /\ UNCHANGED <<now, clock, summary, action_specs, tree, stats, response,
                   u_in, u_out, u_pc>>

\* Ok(Response::new(response)): the response leaves, every value of the
\* call is dropped
Reply(c) ==
    /\ pc[c] = "RESPONSE_BUILT"
    /\ pc' = [pc EXCEPT ![c] = "IDLE"]
    /\ trace' = [trace EXCEPT ![c] = <<>>]
    /\ request' = [request EXCEPT ![c] = NoRequest]
    /\ clock' = [clock EXCEPT ![c] = NoClock]
    /\ summary' = [summary EXCEPT ![c] = DefaultSummary]
    /\ action_specs' = [action_specs EXCEPT ![c] = <<>>]
    /\ tree' = [tree EXCEPT ![c] = NoTree]
    /\ stats' = [stats EXCEPT ![c] = <<>>]
    /\ response' = [response EXCEPT ![c] = NoResponse]
    /\ UNCHANGED <<now, u_in, u_out, u_pc>>

\* let clock = BudgetClock::new(request.budget_ms);
StartBudget(c) ==
    /\ pc[c] = "START"
    /\ clock' = [clock EXCEPT ![c] = BudgetClock_new(request[c].budget_ms, now)]
    /\ Goto(c, "BUDGET_STARTED")
    /\ UNCHANGED <<now, request, summary, action_specs, tree, stats, response,
                   u_in, u_out, u_pc>>

\* the statement as it would be with unwrap() in place of unwrap_or(..):
\* a document that does not deserialize ends the call with a panic
ParseState_unwrap(c) ==
    /\ pc[c] = "BUDGET_STARTED"
    /\ IF from_str(request[c].game_state_json).ok
       THEN /\ summary' = [summary EXCEPT
                             ![c] = from_str(request[c].game_state_json).v]
            /\ Goto(c, "STATE_PARSED")
       ELSE /\ summary' = summary
            /\ Goto(c, "PANICKED")
    /\ UNCHANGED <<now, request, clock, action_specs, tree, stats, response,
                   u_in, u_out, u_pc>>

\* let summary = parse_game_state(&request.game_state_json);
ParseState(c) ==
    /\ pc[c] = "BUDGET_STARTED"
    /\ summary' = [summary EXCEPT
                     ![c] = parse_game_state(request[c].game_state_json)]
    /\ Goto(c, "STATE_PARSED")
    /\ UNCHANGED <<now, request, clock, action_specs, tree, stats, response,
                   u_in, u_out, u_pc>>

\* let action_specs = parse_action_set(&request.action_set, ..);
\* solver.rs:17 names two arguments where abstraction.rs:37 takes three, and
\* solver.rs:72 builds the fallback summary without `blinds`; the call is
\* modelled with the summary of the line before passed as the second
\* argument, and the fallback with BlindSummary::default().
ParseActions(c) ==
    /\ pc[c] = "STATE_PARSED"
    /\ action_specs' = [action_specs EXCEPT
                          ![c] = parse_action_set(
                                     request[c].action_set, summary[c],
                                     I2F(request[c].effective_stack_bb))]
    /\ Goto(c, "ACTIONS_PARSED")
    /\ UNCHANGED <<now, request, clock, summary, tree, stats, response,
                   u_in, u_out, u_pc>>

\* if action_specs.is_empty() {
TerminalEmpty(c) ==
    /\ pc[c] = "ACTIONS_PARSED"
    /\ action_specs[c] = <<>>
    /\ Goto(c, "TERMINAL_EMPTY")
    /\ UNCHANGED <<now, request, clock, summary, action_specs, tree, stats,
                   response, u_in, u_out, u_pc>>

\* return SubgameResponse { actions: vec![], .. }
ReturnEmpty(c) ==
    /\ pc[c] = "TERMINAL_EMPTY"
    /\ response' = [response EXCEPT ![c] = empty_response(clock[c], now)]
    /\ Goto(c, "RESPONSE_BUILT")
    /\ UNCHANGED <<now, request, clock, summary, action_specs, tree, stats,
                   u_in, u_out, u_pc>>

\* let tree = GameTree::from_action_specs(&action_specs, ..);
BuildTree(c) ==
    /\ pc[c] = "ACTIONS_PARSED"
    /\ action_specs[c] # <<>>
    /\ tree' = [tree EXCEPT
                  ![c] = from_action_specs(
                             action_specs[c],
                             I2F(request[c].effective_stack_bb))]
    /\ Goto(c, "TREE_BUILT")
    /\ UNCHANGED <<now, request, clock, summary, action_specs, stats,
                   response, u_in, u_out, u_pc>>

\* the statement as it would be if the iteration count were taken from the
\* time left on the clock
RunSolver_remaining(c) ==
    /\ pc[c] = "TREE_BUILT"
    /\ stats' = [stats EXCEPT
                   ![c] = run_cfr(tree[c],
                                  determine_iterations(
                                      remaining_millis(clock[c], now),
                                      Len(tree[c].actions)))]
    /\ Goto(c, "SOLVED")
    /\ UNCHANGED <<now, request, clock, summary, action_specs, tree,
                   response, u_in, u_out, u_pc>>

\* let iterations = determine_iterations(..); let stats = run_cfr(..);
RunSolver(c) ==
    /\ pc[c] = "TREE_BUILT"
    /\ stats' = [stats EXCEPT
                   ![c] = run_cfr(tree[c],
                                  determine_iterations(
                                      request[c].budget_ms,
                                      Len(tree[c].actions)))]
    /\ Goto(c, "SOLVED")
    /\ UNCHANGED <<now, request, clock, summary, action_specs, tree,
                   response, u_in, u_out, u_pc>>

\* let exploitability = ..; build_response(stats, &clock, exploitability)
BuildResponse(c) ==
    /\ pc[c] = "SOLVED"
    /\ response' = [response EXCEPT
                      ![c] = build_response(stats[c], clock[c],
                                            exploitability_of(summary[c]),
                                            now)]
    /\ Goto(c, "RESPONSE_BUILT")
    /\ UNCHANGED <<now, request, clock, summary, action_specs, tree, stats,
                   u_in, u_out, u_pc>>

\* the monotonic clock advances
Tick ==
    /\ now < MaxTime
    /\ now' = now + 1
    /\ UNCHANGED <<pc, request, clock, summary, action_specs, tree, stats,
                   response, trace, u_in, u_out, u_pc>>

\* one statement of call c
Step(c) ==
    \/ StartBudget(c)
    \/ ParseState(c)
    \/ ParseActions(c)
    \/ TerminalEmpty(c)
    \/ ReturnEmpty(c)
    \/ BuildTree(c)
    \/ RunSolver(c)
    \/ BuildResponse(c)

\* the service with MaxCalls calls in flight
Next ==
    \/ \E c \in Calls : Receive(c, SmallRequests)
    \/ \E c \in Calls : Step(c)
    \/ \E c \in Calls : Reply(c)
    \/ Tick

Spec == Init /\ [][Next]_vars

\* The control skeleton of Step(c): a step of call c is exactly a step that
\* moves pc[c] this way (every statement of solve is total, so the statement
\* at pc[c] can always be taken).
Flow(c) ==
    \/ pc[c] = "START" /\ pc' = [pc EXCEPT ![c] = "BUDGET_STARTED"]
    \/ pc[c] = "BUDGET_STARTED" /\ pc' = [pc EXCEPT ![c] = "STATE_PARSED"]
    \/ pc[c] = "STATE_PARSED" /\ pc' = [pc EXCEPT ![c] = "ACTIONS_PARSED"]
    \/ /\ pc[c] = "ACTIONS_PARSED"
       /\ action_specs[c] = <<>>
       /\ pc' = [pc EXCEPT ![c] = "TERMINAL_EMPTY"]
    \/ /\ pc[c] = "ACTIONS_PARSED"
       /\ action_specs[c] # <<>>
       /\ pc' = [pc EXCEPT ![c] = "TREE_BUILT"]
    \/ pc[c] = "TERMINAL_EMPTY" /\ pc' = [pc EXCEPT ![c] = "RESPONSE_BUILT"]
    \/ pc[c] = "TREE_BUILT" /\ pc' = [pc EXCEPT ![c] = "SOLVED"]
    \/ pc[c] = "SOLVED" /\ pc' = [pc EXCEPT ![c] = "RESPONSE_BUILT"]

\* a call, once started, runs to its return: solve is synchronous and has no
\* await point, so the task running it is never parked inside it
FairSpec == Spec /\ \A c \in Calls : WF_pc(Flow(c))

\* one call at a time, over the whole request set
SoloNext ==
    \/ Receive(1, AllRequests)
    \/ Step(1)
    \/ Reply(1)
    \/ Tick

SoloSpec == Init /\ [][SoloNext]_vars

(***************************************************************************)
(* The functions on their own: the arguments are chosen at the start, one  *)
(* step calls the function                                                 *)
(***************************************************************************)
SolveIdle ==
    /\ now = 0
    /\ pc = [c \in Calls |-> "IDLE"]
    /\ request = [c \in Calls |-> NoRequest]
    /\ clock = [c \in Calls |-> NoClock]
    /\ summary = [c \in Calls |-> DefaultSummary]
    /\ action_specs = [c \in Calls |-> <<>>]
    /\ tree = [c \in Calls |-> NoTree]
    /\ stats = [c \in Calls |-> <<>>]
    /\ response = [c \in Calls |-> NoResponse]
    /\ trace = [c \in Calls |-> <<>>]

Summary(pot, street, big) ==
    [pot |-> pot, street |-> street, blinds |-> [big |-> big]]

\* the summary of the test parses_action_set
TestSummary == Summary(I2F(20), "preflop", I2F(2))

Summaries ==
    {TestSummary, DefaultSummary,
     Summary(I2F(12), "flop", I2F(2)),
     Summary(I2F(800), "river", I2F(0)),
     Summary(I2F(-50), "", I2F(-2)),
     Summary(Fin(3, 2), "turn", I2F(4)),
     Summary(I2F(20), "", Fin(1, 2))}

\* effective_stack_bb values (f64)
StackValues ==
    {I2F(150), I2F(120), I2F(1), I2F(0), I2F(-3), Fin(1, 4), Fin(5, 2)}

ParseInputs ==
    {[raw |-> Window(i, len), s |-> sm, effective_stack_bb |-> st] :
        i \in 1..NumTokens, len \in 0..MaxWindow, sm \in Summaries,
        st \in StackValues}

ParseInit ==
    /\ SolveIdle
    /\ u_in \in ParseInputs
    /\ u_out = <<>>
    /\ u_pc = "ready"

CallParseActionSet ==
    /\ u_pc = "ready"
    /\ u_out' = parse_action_set(u_in.raw, u_in.s, u_in.effective_stack_bb)
    /\ u_pc' = "done"
    /\ UNCHANGED <<solve_vars, u_in>>

ParseSpec == ParseInit /\ [][CallParseActionSet]_vars

\* ActionSpec values handed to from_action_specs
SpecPool == <<
    [label |-> "abs-0.00", amount |-> I2F(0)],
    [label |-> "pot-0.50", amount |-> I2F(5)],
    [label |-> "neg", amount |-> I2F(-2)],
    [label |-> "all-in", amount |-> I2F(150)],
    [label |-> "stack-0.00", amount |-> Fin(1, 2)],
    [label |-> "abs-1000.00", amount |-> I2F(1000)],
    [label |-> "abs-0.25", amount |-> Fin(1, 4)],
    [label |-> "abs-7.50", amount |-> Fin(15, 2)],
    [label |-> "pot-0.50", amount |-> I2F(5)],
    [label |-> "abs-1.00", amount |-> I2F(1)],
    [label |-> "abs-2.00", amount |-> I2F(2)],
    [label |-> "abs-3.00", amount |-> I2F(3)]
>>

\* len consecutive specs of the pool starting at the i-th (cyclic)
SpecWindow(i, len) ==
    [j \in 1..len |-> SpecPool[((i + j - 2) % Len(SpecPool)) + 1]]

TreeInputs ==
    {[specs |-> SpecWindow(i, len), effective_stack_bb |-> st] :
        i \in 1..Len(SpecPool), len \in 0..MaxWindow, st \in StackValues}

TreeInit ==
    /\ SolveIdle
    /\ u_in \in TreeInputs
    /\ u_out = NoTree
    /\ u_pc = "ready"

CallFromActionSpecs ==
    /\ u_pc = "ready"
    /\ u_out' = from_action_specs(u_in.specs, u_in.effective_stack_bb)
    /\ u_pc' = "done"
    /\ UNCHANGED <<solve_vars, u_in>>

TreeSpec == TreeInit /\ [][CallFromActionSpecs]_vars

\* budget_ms values (i32) around the thresholds of determine_iterations
BudgetSamples ==
    {-2147483647 - 1, -1000, -1, 0, 1, 49, 50, 51, 59, 60, 61, 99, 100, 200,
     1000, 2147483647}

IterInputs ==
    {[budget_ms |-> b, action_count |-> k] :
        b \in BudgetSamples, k \in 0..MaxCount}

IterInit ==
    /\ SolveIdle
    /\ u_in \in IterInputs
    /\ u_out = 0
    /\ u_pc = "ready"

CallDetermineIterations ==
    /\ u_pc = "ready"
    /\ u_out' = determine_iterations(u_in.budget_ms, u_in.action_count)
    /\ u_pc' = "done"
    /\ UNCHANGED <<solve_vars, u_in>>

IterSpec == IterInit /\ [][CallDetermineIterations]_vars

\* most actions of a tree given to run_cfr on its own
MaxTreeActions == 12

CfrInputs ==
    {[tree |-> from_action_specs(SpecWindow(1, k), st), n1 |-> a, n2 |-> b] :
        k \in 1..MaxTreeActions, st \in {I2F(120), I2F(0)},
        a \in 0..MaxIter, b \in 0..MaxIter}

CfrInit ==
    /\ SolveIdle
    /\ u_in \in {x \in CfrInputs : x.n1 < x.n2}
    /\ u_out = [first |-> <<>>, second |-> <<>>]
    /\ u_pc = "ready"

CallRunCfrFirst ==
    /\ u_pc = "ready"
    /\ u_out' = [u_out EXCEPT !.first = run_cfr(u_in.tree, u_in.n1)]
    /\ u_pc' = "first"
    /\ UNCHANGED <<solve_vars, u_in>>

CallRunCfrSecond ==
    /\ u_pc = "first"
    /\ u_out' = [u_out EXCEPT !.second = run_cfr(u_in.tree, u_in.n2)]
    /\ u_pc' = "done"
    /\ UNCHANGED <<solve_vars, u_in>>

CfrNext == CallRunCfrFirst \/ CallRunCfrSecond

CfrSpec == CfrInit /\ [][CfrNext]_vars

(***************************************************************************)
(* Properties                                                              *)
(***************************************************************************)
\* the token table, read off the catalogue
TableValue(m) == IF m.num THEN m.val ELSE I2F(0)

TableKept(m) ==
    CASE m.form = "other" -> FALSE
      [] m.form = "bare" -> m.num /\ f64_gt(m.val, I2F(0))
      [] OTHER -> TRUE

TablePotBb(s) ==
    f64_max(f64_div(s.pot, f64_max(s.blinds.big, I2F(1))), I2F(1))

TableCap(stack) == f64_max(stack, I2F(1))

TableAmount(m, pot_bb, stack_cap) ==
    CASE m.form = "all-in" -> stack_cap
      [] m.form = "pot" ->
            f64_clamp(f64_mul(f64_max(TableValue(m), Fin(1, 100)), pot_bb),
                      Fin(1, 2), stack_cap)
      [] m.form = "stack" ->
            f64_max(f64_mul(f64_clamp(TableValue(m), I2F(0), I2F(1)),
                            stack_cap),
                    Fin(1, 2))
      [] OTHER -> f64_min(f64_max(TableValue(m), I2F(0)), stack_cap)

\* the catalogue entries of the tokens of raw that are not dropped, in order
RECURSIVE KeptTokens(_)
KeptTokens(raw) ==
    IF raw = <<>> THEN <<>>
    ELSE IF TableKept(Meaning(Head(raw)))
         THEN <<Meaning(Head(raw))>> \o KeptTokens(Tail(raw))
         ELSE KeptTokens(Tail(raw))

Done(c) == pc[c] = "RESPONSE_BUILT"

\* C1: whenever the parsed action set of a solve call is non-empty, the
\* frequencies of the returned actions sum to 1.0
C1_FrequenciesSumToOne ==
    (Done(1) /\ action_specs[1] # <<>>) =>
        sum_f64([i \in 1..Len(response[1].actions) |->
                    response[1].actions[i].frequency]) = I2F(1)

\* a call returned more than 20 actions, the last with frequency zero
C1_Witness ==
    /\ Done(1)
    /\ Len(response[1].actions) > 20
    /\ response[1].actions[Len(response[1].actions)].frequency = I2F(0)
    /\ response[1].actions[1].frequency # I2F(0)

\* C2: in every response, every action has 0 <= frequency <= 1 and
\* 0 < amount <= max(effective_stack_bb, 1), and exploitability is in [0, 0.5]
C2_ResponseRanges ==
    Done(1) =>
        /\ \A i \in 1..Len(response[1].actions) :
              LET a == response[1].actions[i]
              IN  /\ f64_le(I2F(0), a.frequency)
                  /\ f64_le(a.frequency, I2F(1))
                  /\ f64_lt(I2F(0), a.amount)
                  /\ f64_le(a.amount,
                            TableCap(I2F(request[1].effective_stack_bb)))
        /\ f64_le(I2F(0), response[1].exploitability)
        /\ f64_le(response[1].exploitability, Fin(1, 2))

\* a call with a stack below 1 and an abs: token of value 0 returned an
\* action, with exploitability at its upper limit
C2_Witness ==
    /\ Done(1)
    /\ request[1].effective_stack_bb <= 0
    /\ \E i \in 1..Len(action_specs[1]) : action_specs[1][i].amount = I2F(0)
    /\ response[1].actions # <<>>
    /\ response[1].exploitability = Fin(1, 2)

\* C3: the response's actions are, one for one and in order, the tokens of
\* the request that were not dropped: as many actions as kept tokens, the
\* i-th action_type being the label of the i-th kept token
C3_ActionsFollowTokens ==
    Done(1) =>
        LET kept == KeptTokens(request[1].action_set)
        IN  /\ Len(response[1].actions) = Len(kept)
            /\ \A i \in 1..Len(kept) :
                  response[1].actions[i].action_type = kept[i].label

\* a call whose tokens hold a dropped one between two kept ones with
\* different labels has returned
C3_Witness ==
    /\ Done(1)
    /\ Len(request[1].action_set) = 3
    /\ ~TableKept(Meaning(request[1].action_set[2]))
    /\ Len(response[1].actions) = 2
    /\ response[1].actions[1].action_type # response[1].actions[2].action_type

\* C4: parse_action_set maps each token on its own by the token table, with
\* pot_bb = max(pot / max(big_blind, 1), 1) and stack_cap = max(stack, 1);
\* pot:0.5 with pot 20, big blind 2 and stack 150 gives the amount 5.0
C4_TokenTable ==
    u_pc = "done" =>
        LET kept == KeptTokens(u_in.raw)
            pot_bb == TablePotBb(u_in.s)
            stack_cap == TableCap(u_in.effective_stack_bb)
        IN  /\ Len(u_out) = Len(kept)
            /\ \A i \in 1..Len(kept) :
                  /\ u_out[i].amount = TableAmount(kept[i], pot_bb, stack_cap)
                  /\ kept[i].form = "all-in" => u_out[i].label = "all-in"
            /\ (/\ u_in.raw # <<>>
                /\ u_in.raw[1] = Catalogue[1].s
                /\ u_in.s = TestSummary
                /\ u_in.effective_stack_bb = I2F(150))
                  => u_out[1].amount = I2F(5)

\* the call of the test parses_action_set has returned
C4_Witness ==
    /\ u_pc = "done"
    /\ u_in = [raw |-> Window(1, 2), s |-> TestSummary,
               effective_stack_bb |-> I2F(150)]
    /\ Len(u_out) = 2
    /\ u_out[1].amount = I2F(5)

\* the two paths of a call
EmptyPath ==
    <<"START", "BUDGET_STARTED", "STATE_PARSED", "ACTIONS_PARSED",
      "TERMINAL_EMPTY", "RESPONSE_BUILT">>
SolvePath ==
    <<"START", "BUDGET_STARTED", "STATE_PARSED", "ACTIONS_PARSED",
      "TREE_BUILT", "SOLVED", "RESPONSE_BUILT">>

IsPrefix(a, b) == Len(a) <= Len(b) /\ a = SubSeq(b, 1, Len(a))

\* the positions a call has gone through are the start of the path its
\* tokens select; the empty path is taken exactly when no token is kept, and
\* ends in a response without actions, exploitability 0, source "subgame"
C5_Order ==
    \A c \in Calls :
        pc[c] # "IDLE" =>
            LET none == KeptTokens(request[c].action_set) = <<>>
                path == IF none THEN EmptyPath ELSE SolvePath
            IN  /\ IsPrefix(trace[c], path)
                /\ pc[c] = trace[c][Len(trace[c])]
                /\ Done(c) => trace[c] = path
                /\ Len(trace[c]) >= 4 => (action_specs[c] = <<>>) = none
                /\ (Done(c) /\ none) =>
                      /\ response[c].actions = <<>>
                      /\ response[c].exploitability = I2F(0)
                      /\ response[c].source = "subgame"

\* C5: every call goes START, BUDGET_STARTED, STATE_PARSED, ACTIONS_PARSED,
\* then TERMINAL_EMPTY exactly when its parsed action set is empty and
\* TREE_BUILT, SOLVED otherwise, and always reaches RESPONSE_BUILT
C5_Lifecycle ==
    /\ []C5_Order
    /\ \A c \in Calls : (pc[c] = "START") ~> (pc[c] = "RESPONSE_BUILT")

\* a call with a malformed game state and only dropped tokens has returned
\* along the empty path
C5_Witness ==
    \E c \in Calls :
        /\ Done(c)
        /\ ~request[c].game_state_json.valid
        /\ request[c].action_set # <<>>
        /\ trace[c] = EmptyPath

\* C6: two calls with identical requests return identical actions (label,
\* amount, frequency, ev, regret) and identical exploitability, whatever
\* ran before or between them and whatever time passed
C6_Deterministic ==
    \A c1, c2 \in Calls :
        (Done(c1) /\ Done(c2) /\ request[c1] = request[c2]) =>
            /\ response[c1].actions = response[c2].actions
            /\ response[c1].exploitability = response[c2].exploitability

\* two calls with the same request have returned actions, and their
\* compute_time_ms differ
C6_Witness ==
    \E c1, c2 \in Calls :
        /\ c1 # c2
        /\ Done(c1) /\ Done(c2)
        /\ request[c1] = request[c2]
        /\ response[c1].actions # <<>>
        /\ response[c1].compute_time_ms # response[c2].compute_time_ms

\* C7: determine_iterations returns max(max(budget_ms, 50) div 10,
\* action_count, 5); for budget_ms <= 0 that is at least max(action_count, 5)
C7_Iterations ==
    u_pc = "done" =>
        LET b == IF u_in.budget_ms > 50 THEN u_in.budget_ms ELSE 50
            floor == IF u_in.action_count > 5 THEN u_in.action_count ELSE 5
        IN  /\ u_out = (IF b \div 10 > floor THEN b \div 10 ELSE floor)
            /\ u_in.budget_ms <= 0 => u_out >= floor
            /\ u_out > 0

\* determine_iterations has returned for a negative budget and more than 5
\* actions
C7_Witness ==
    /\ u_pc = "done"
    /\ u_in.budget_ms < 0
    /\ u_in.action_count > 5
    /\ u_out = u_in.action_count

\* C8 as stated: every ActionSpec returned by parse_action_set has amount > 0
C8_AmountPositive ==
    u_pc = "done" =>
        \A i \in 1..Len(u_out) : f64_gt(u_out[i].amount, I2F(0))

\* C8: every ActionSpec returned by parse_action_set has amount >= 0, and
\* amount > 0 unless its token is an abs: token whose value is zero,
\* negative, NaN or unparsable, which gets the amount 0
C8_AmountNonNegative ==
    u_pc = "done" =>
        LET kept == KeptTokens(u_in.raw)
        IN  \A i \in 1..Len(u_out) :
              /\ f64_ge(u_out[i].amount, I2F(0))
              /\ (kept[i].form = "abs" /\ ~f64_gt(TableValue(kept[i]), I2F(0)))
                    <=> u_out[i].amount = I2F(0)

\* parse_action_set has returned a spec of amount 0 for an abs: token
C8_Witness ==
    /\ u_pc = "done"
    /\ \E i \in 1..Len(u_out) :
          /\ u_out[i].amount = I2F(0)
          /\ KeptTokens(u_in.raw)[i].form = "abs"

\* C9 as stated: every action of the tree has amount <= effective_stack_bb,
\* and a spec of non-positive amount gets amount = effective_stack_bb
C9_AmountWithinStack ==
    u_pc = "done" =>
        \A i \in 1..Len(u_out.actions) :
            /\ f64_le(u_out.actions[i].amount, u_in.effective_stack_bb)
            /\ f64_le(u_in.specs[i].amount, I2F(0)) =>
                  u_out.actions[i].amount = u_in.effective_stack_bb

\* C9: every action of the tree has amount <= max(effective_stack_bb, 1),
\* and a spec of non-positive amount gets amount = max(effective_stack_bb, 1)
C9_AmountWithinStackCap ==
    u_pc = "done" =>
        /\ Len(u_out.actions) = Len(u_in.specs)
        /\ \A i \in 1..Len(u_out.actions) :
            /\ f64_le(u_out.actions[i].amount,
                      f64_max(u_in.effective_stack_bb, I2F(1)))
            /\ f64_le(u_in.specs[i].amount, I2F(0)) =>
                  u_out.actions[i].amount
                      = f64_max(u_in.effective_stack_bb, I2F(1))

\* a tree was built for a stack below 1 from a non-positive spec and from a
\* spec above the stack
C9_Witness ==
    /\ u_pc = "done"
    /\ f64_lt(u_in.effective_stack_bb, I2F(1))
    /\ \E i \in 1..Len(u_in.specs) :
          /\ f64_le(u_in.specs[i].amount, I2F(0))
          /\ u_out.actions[i].amount = I2F(1)
    /\ \E i \in 1..Len(u_in.specs) :
          f64_gt(u_in.specs[i].amount, I2F(1))

\* C10 as stated: for n1 < n2 on the same tree, regret_i(n2) <= regret_i(n1)
C10_RegretDecays ==
    u_pc = "done" =>
        \A i \in 1..Len(u_out.first) :
            f64_le(u_out.second[i].regret, u_out.first[i].regret)

\* C10: for n1 < n2 on the same tree, regret_i(n1) <= regret_i(n2): the
\* regret does not fall as the iteration count grows, and stays at or below
\* max(0.1 - 0.01 i, 0)
C10_RegretGrows ==
    u_pc = "done" =>
        /\ Len(u_out.first) = Len(u_out.second)
        /\ \A i \in 1..Len(u_out.first) :
            /\ f64_le(u_out.first[i].regret, u_out.second[i].regret)
            /\ f64_le(u_out.second[i].regret,
                      f64_max(f64_sub(Fin(1, 10),
                                      f64_mul(I2F(i - 1), Fin(1, 100))),
                              I2F(0)))

\* run_cfr has returned for n1 < n2, with a regret that rose and, at an
\* index of 10 or more, one that stayed 0
C10_Witness ==
    /\ u_pc = "done"
    /\ u_in.n1 >= 1
    /\ Len(u_out.first) > 10
    /\ f64_lt(u_out.first[1].regret, u_out.second[1].regret)
    /\ u_out.second[Len(u_out.second)].regret = I2F(0)

=============================================================================
